---- MODULE Spec2Model ----
(***************************************************************************)
(* Model of the three post-processing scripts of the repository:           *)
(*   add_data_with_error_propagation.py  (Quadrature Combiner)             *)
(*   py_calc_contact_count.py            (Contact Counter)                 *)
(*   py_compute_work.py                  (Work Integrator)                 *)
(* Each script is a straight-line program; pc is the statement about to be *)
(* executed.  Numbers are fixed-point integers: one model unit is a tenth  *)
(* of the last digit that the scripts' output formats keep.                *)
(***************************************************************************)
EXTENDS Integers, Sequences, FiniteSets, TLC

VARIABLES
    script,                 \* which of the three scripts this process runs
    pc,                     \* statement about to run, or "done"/"exit"/"failed"
    err,                    \* exception that ended the run ("" if none)
    exitcode,               \* process exit status once terminated (-1 before)
    stdout,                 \* lines printed so far
    files,                  \* output files written so far
    \* add_data_with_error_propagation.py
    file1, file2,           \* rows of the two input files
    data1, data2,           \* the loaded arrays
    \* py_calc_contact_count.py
    argv,                   \* sys.argv
    trajectory_file,        \* frames stored in the trajectory file
    univ_open,              \* TRUE once MDAnalysis.Universe has been built
    group1, group2,         \* atoms of the two selections
    distance_threshold,     \* float(sys.argv[3])
    ts,                     \* number of frames the loop has consumed
    results,                \* list of (time, count) tuples
    printed,                \* number of result tuples printed
    \* py_compute_work.py
    gd_file, f_file, x_file,            \* rows of the three input files
    gaussian_denoised_data, force_data, position_data,
    max_force_index,
    force_up_to_max, gd_force_up_to_max, gd_virtual_positions, sim_positions,
    work_at_sim_positions, work_at_gd_positions

commonVars == <<script, pc, err, exitcode, stdout, files>>
combineVars == <<file1, file2, data1, data2>>
contactInputs == <<argv, trajectory_file>>
contactVars == <<univ_open, group1, group2, distance_threshold, ts, results, printed>>
workInputs == <<gd_file, f_file, x_file>>
workArrays == <<gaussian_denoised_data, force_data, position_data>>
workSlices == <<max_force_index, force_up_to_max, gd_force_up_to_max,
                gd_virtual_positions, sim_positions>>
workResults == <<work_at_sim_positions, work_at_gd_positions>>
vars == <<commonVars, combineVars, contactInputs, contactVars,
          workInputs, workArrays, workSlices, workResults>>

---------------------------------------------------------------------------
(* Bounds of the model *)
MaxRows == 3          \* rows of a combiner input file
MaxArgs == 6          \* positional command-line arguments given
MaxFrames == 2        \* frames in the trajectory
MaxGd == 5            \* rows of the denoised force file
MaxForceRows == 3     \* rows of the raw force file
MaxPos == 3           \* rows of the raw position file

(* Program constants *)
FmtStep == 10         \* '%16.8f' keeps 8 decimals: 10 model units
TimeFmtStep == 10     \* "%8f" keeps 6 decimals of the time: 10 model units
Prominence == 30      \* find_peaks(..., prominence=30)
ArgvLenOffByOne == 6 - 1   \* a check that forgets sys.argv[0]
ArgvLen == 6          \* len(sys.argv) != 6

---------------------------------------------------------------------------
(* Generic helpers *)
Abs(v) == IF v < 0 THEN -v ELSE v
Min(a, b) == IF a < b THEN a ELSE b
Max(a, b) == IF a < b THEN b ELSE a
Take(s, k) == SubSeq(s, 1, Min(Max(k, 0), Len(s)))            \* s[:k], k >= 0

RECURSIVE SeqsUpTo(_, _)
SeqsUpTo(S, n) ==
    IF n = 0 THEN {<<>>}
    ELSE LET shorter == SeqsUpTo(S, n - 1)
         IN  shorter \cup {Append(s, e) : s \in {t \in shorter : Len(t) = n - 1}, e \in S}

RECURSIVE Flatten(_)
Flatten(rows) == IF rows = <<>> THEN <<>> ELSE Head(rows) \o Flatten(Tail(rows))

RECURSIVE SumSeq(_)
SumSeq(s) == IF s = <<>> THEN 0 ELSE Head(s) + SumSeq(Tail(s))

(* printf-style fixed-point formatting: the nearest multiple of step, ties
   to the even multiple *)
RoundTo(v, step) ==
    LET q == v \div step
        r == v % step
    IN  IF 2 * r < step THEN q * step
        ELSE IF 2 * r > step THEN (q + 1) * step
        ELSE IF q % 2 = 0 THEN q * step ELSE (q + 1) * step

---------------------------------------------------------------------------
(* numpy arrays as returned by np.loadtxt: an empty file and a one-row file
   give a one-dimensional array, two or more rows a two-dimensional one *)
EmptyArray == [ndim |-> 1, rows |-> <<>>]

\* a loader that keeps one row per line whatever the number of lines
LoadTxt2D(rows) == [ndim |-> 2, rows |-> rows]

LoadTxt(rows) ==
    IF Len(rows) >= 2 THEN [ndim |-> 2, rows |-> rows]
    ELSE [ndim |-> 1, rows |-> rows]

NCols(a) == IF a.rows = <<>> THEN 0 ELSE Len(a.rows[1])
\* a[:, j] raises IndexError unless a is two-dimensional with more than j columns
CanIndexCol(a, j) == a.ndim = 2 /\ j < NCols(a)
Col(a, j) == [i \in 1..Len(a.rows) |-> a.rows[i][j + 1]]
SetCol(a, j, c) ==
    [a EXCEPT !.rows = [i \in 1..Len(a.rows) |-> [a.rows[i] EXCEPT ![j + 1] = c[i]]]]

\* a broadcast rule that silently drops the surplus rows of a longer operand
BroadcastsTruncating(m, n) == m >= n \/ m = 1

\* an operand of length m used elementwise against a target of length n
BroadcastsTo(m, n) == m = n \/ m = 1
Bcast(c, i) == IF Len(c) = 1 THEN c[1] ELSE c[i]

usageLine == [kind |-> "usage", vals |-> <<>>]
ResultLines(out) == SelectSeq(out, LAMBDA l : l.kind # "usage")
Written(name) == \E f \in files : f.name = name
Content(name) == (CHOOSE f \in files : f.name = name).content

Fail(e) ==
    /\ pc' = "failed"
    /\ err' = e
    /\ exitcode' = 1

---------------------------------------------------------------------------
(* add_data_with_error_propagation.py *)

\* rows of the first and of the second input file: (position, value, uncertainty)
RowsA == {<<x, v, u>> : x \in {0, 14}, v \in {-7, 26}, u \in {4}}
RowsB == {<<x, v, u>> : x \in {1}, v \in {5}, u \in {3, 4}}
ColumnCounts == {2, 3}
TrimCols(rows, nc) == [i \in 1..Len(rows) |-> SubSeq(rows[i], 1, nc)]

\* np.sqrt on a radicand n >= 0: the representable number nearest to the root
RECURSIVE SqrtFrom(_, _)
SqrtFrom(n, r) == IF (2 * r + 1) * (2 * r + 1) > 4 * n THEN r ELSE SqrtFrom(n, r + 1)
Sqrt(n) == SqrtFrom(n, 0)

\* data1[:, 1] + data2[:, 1]
AddColumns(c1, c2) == [i \in 1..Len(c1) |-> c1[i] + Bcast(c2, i)]

\* a combiner that adds the uncertainties linearly
RootSumSquareLinear(c1, c2) == [i \in 1..Len(c1) |-> c1[i] + Bcast(c2, i)]

\* np.sqrt(data1[:, 2]**2 + data2[:, 2]**2)
RootSumSquare(c1, c2) ==
    [i \in 1..Len(c1) |-> Sqrt(c1[i] * c1[i] + Bcast(c2, i) * Bcast(c2, i))]

\* np.savetxt(..., fmt='%16.8f'): one line per row (per element of a 1-D array)
SaveTxt(a) ==
    IF a.ndim = 2
    THEN [i \in 1..Len(a.rows) |->
            [j \in 1..Len(a.rows[i]) |-> RoundTo(a.rows[i][j], FmtStep)]]
    ELSE LET flat == Flatten(a.rows)
         IN  [k \in 1..Len(flat) |-> <<RoundTo(flat[k], FmtStep)>>]

IdleCombine ==
    /\ file1 = <<>> /\ file2 = <<>>
    /\ data1 = EmptyArray /\ data2 = EmptyArray

InitCombine ==
    /\ script = "combine" /\ pc = "load1"
    /\ \E ta \in SeqsUpTo(RowsA, MaxRows), tb \in SeqsUpTo(RowsB, MaxRows),
          na \in ColumnCounts, nb \in ColumnCounts :
          /\ file1 = TrimCols(ta, na)
          /\ file2 = TrimCols(tb, nb)
    /\ data1 = EmptyArray /\ data2 = EmptyArray

\* line 32: data1 = np.loadtxt(file1, ...)
CombLoad1 ==
    /\ script = "combine" /\ pc = "load1"
    /\ \/ /\ data1' = LoadTxt(file1)
          /\ pc' = "load2"
          /\ UNCHANGED <<err, exitcode>>
       \/ /\ Fail("ReadError")          \* missing, unreadable or malformed file
          /\ UNCHANGED data1
    /\ UNCHANGED <<script, stdout, files, file1, file2, data2>>
    /\ UNCHANGED <<contactInputs, contactVars, workInputs, workArrays, workSlices, workResults>>

\* line 33: data2 = np.loadtxt(file2, ...)
CombLoad2 ==
    /\ script = "combine" /\ pc = "load2"
    /\ \/ /\ data2' = LoadTxt(file2)
          /\ pc' = "add"
          /\ UNCHANGED <<err, exitcode>>
       \/ /\ Fail("ReadError")
          /\ UNCHANGED data2
    /\ UNCHANGED <<script, stdout, files, file1, file2, data1>>
    /\ UNCHANGED <<contactInputs, contactVars, workInputs, workArrays, workSlices, workResults>>

\* line 36: data1[:, 1] += data2[:, 1]
CombAdd ==
    /\ script = "combine" /\ pc = "add"
    /\ IF ~CanIndexCol(data1, 1) \/ ~CanIndexCol(data2, 1)
       THEN Fail("IndexError") /\ UNCHANGED data1
       ELSE IF ~BroadcastsTo(Len(data2.rows), Len(data1.rows))
       THEN Fail("ValueError") /\ UNCHANGED data1
       ELSE /\ data1' = SetCol(data1, 1, AddColumns(Col(data1, 1), Col(data2, 1)))
            /\ pc' = "sqrt"
            /\ UNCHANGED <<err, exitcode>>
    /\ UNCHANGED <<script, stdout, files, file1, file2, data2>>
    /\ UNCHANGED <<contactInputs, contactVars, workInputs, workArrays, workSlices, workResults>>

\* line 39: data1[:, 2] = np.sqrt(data1[:, 2]**2 + data2[:, 2]**2)
CombSqrt ==
    /\ script = "combine" /\ pc = "sqrt"
    /\ IF ~CanIndexCol(data1, 2) \/ ~CanIndexCol(data2, 2)
       THEN Fail("IndexError") /\ UNCHANGED data1
       ELSE IF ~BroadcastsTo(Len(data2.rows), Len(data1.rows))
       THEN Fail("ValueError") /\ UNCHANGED data1
       ELSE /\ data1' = SetCol(data1, 2, RootSumSquare(Col(data1, 2), Col(data2, 2)))
            /\ pc' = "save"
            /\ UNCHANGED <<err, exitcode>>
    /\ UNCHANGED <<script, stdout, files, file1, file2, data2>>
    /\ UNCHANGED <<contactInputs, contactVars, workInputs, workArrays, workSlices, workResults>>

\* line 42: np.savetxt(output_file, data1, fmt='%16.8f'), then normal exit
CombSave ==
    /\ script = "combine" /\ pc = "save"
    /\ files' = files \cup {[name |-> "output_file", content |-> SaveTxt(data1)]}
    /\ pc' = "done"
    /\ exitcode' = 0
    /\ UNCHANGED <<script, err, stdout, combineVars>>
    /\ UNCHANGED <<contactInputs, contactVars, workInputs, workArrays, workSlices, workResults>>

NextCombine == CombLoad1 \/ CombLoad2 \/ CombAdd \/ CombSqrt \/ CombSave

---------------------------------------------------------------------------
(* py_calc_contact_count.py *)

Atoms == {1, 2}
Selections == {"bynum 1", "bynum 2", "all", "resname XXX"}
ThresholdArgs == {"2", "3", "abc"}
\* coordinates of atom 1 and atom 2 in a frame, along the one axis they differ on
Configs == {<<0, c>> : c \in {2, 3, 5}}
Boxes == {6, 8}
TimeSteps == {25}

\* univ.select_atoms(selection): a selection that matches nothing gives an
\* empty group, it does not raise
SelectAtoms(sel) ==
    CASE sel = "all" -> Atoms
      [] sel = "bynum 1" -> {1}
      [] sel = "bynum 2" -> {2}
      [] OTHER -> {}

\* float(text)
FloatTable == [t \in {"2", "3"} |-> IF t = "2" THEN 2 ELSE 3]
CanParseFloat(text) == text \in DOMAIN FloatTable
ParseFloat(text) == FloatTable[text]

\* atoms of a group in index order
RECURSIVE SortedSeq(_)
SortedSeq(S) ==
    IF S = {} THEN <<>>
    ELSE LET m == CHOOSE a \in S : \A b \in S : a <= b
         IN  <<m>> \o SortedSeq(S \ {m})

\* group.positions in a frame
Positions(group, frame) ==
    LET atoms == SortedSeq(group)
    IN  [i \in 1..Len(atoms) |-> frame.positions[atoms[i]]]

\* distances.distance_array(p1, p2, box=...): minimum-image separation, the
\* displacement reduced by the nearest whole number of box lengths
MinimumImage(dx, box) == Abs(dx - RoundTo(dx, box))
DistanceArray(p1, p2, box) ==
    [i \in 1..Len(p1) |-> [j \in 1..Len(p2) |-> MinimumImage(p1[i] - p2[j], box)]]

\* a count that also takes the pairs exactly at the threshold
CountAtOrBelow(d, threshold) ==
    Len(SelectSeq(Flatten(d), LAMBDA v : v <= threshold))

\* len(np.where(d < distance_threshold)[0])
CountBelow(d, threshold) ==
    Len(SelectSeq(Flatten(d), LAMBDA v : v < threshold))

\* lines 62-69: the count recorded for one frame
FrameCount(g1, g2, threshold, frame) ==
    LET num_group == CountBelow(DistanceArray(Positions(g1, frame),
                                              Positions(g2, frame), frame.box),
                                threshold)
    IN  IF num_group > 0 THEN num_group ELSE 0

\* line 91: print("%8f " % time, count_group)
RecordLine(rec) == [kind |-> "record", vals |-> <<RoundTo(rec[1], TimeFmtStep), rec[2]>>]

Trajectory(cfgs, box, dt) ==
    [k \in 1..Len(cfgs) |-> [time |-> (k - 1) * dt, positions |-> cfgs[k], box |-> box]]

Extras(n) == [i \in 1..n |-> "extra"]

IdleContacts ==
    /\ argv = <<>> /\ trajectory_file = <<>>
    /\ univ_open = FALSE /\ group1 = {} /\ group2 = {}
    /\ distance_threshold = 0 /\ ts = 0 /\ results = <<>> /\ printed = 0

InitContacts ==
    /\ script = "contacts" /\ pc = "argcheck"
    /\ \E n \in 0..MaxArgs, s1 \in Selections, s2 \in Selections, t \in ThresholdArgs :
          argv = <<"py_calc_contact_count.py">>
                 \o Take(<<s1, s2, t, "topol.tpr", "traj.xtc">> \o Extras(Max(MaxArgs - 5, 0)), n)
    /\ \E cfgs \in SeqsUpTo(Configs, MaxFrames), box \in Boxes, dt \in TimeSteps :
          trajectory_file = Trajectory(cfgs, box, dt)
    /\ univ_open = FALSE /\ group1 = {} /\ group2 = {}
    /\ distance_threshold = 0 /\ ts = 0 /\ results = <<>> /\ printed = 0

\* lines 78-80: wrong argument count prints the usage and exits with status 1
ContactArgCheck ==
    /\ script = "contacts" /\ pc = "argcheck"
    /\ IF Len(argv) # ArgvLen
       THEN /\ stdout' = Append(stdout, usageLine)
            /\ exitcode' = 1
            /\ pc' = "exit"
       ELSE /\ pc' = "parse"
            /\ UNCHANGED <<stdout, exitcode>>
    /\ UNCHANGED <<script, err, files, contactInputs, contactVars>>
    /\ UNCHANGED <<combineVars, workInputs, workArrays, workSlices, workResults>>

\* lines 82-86: distance_threshold = float(sys.argv[3])
ContactParse ==
    /\ script = "contacts" /\ pc = "parse"
    /\ IF CanParseFloat(argv[4])
       THEN /\ distance_threshold' = ParseFloat(argv[4])
            /\ pc' = "universe"
            /\ UNCHANGED <<err, exitcode>>
       ELSE Fail("ValueError") /\ UNCHANGED distance_threshold
    /\ UNCHANGED <<script, stdout, files, contactInputs>>
    /\ UNCHANGED <<univ_open, group1, group2, ts, results, printed>>
    /\ UNCHANGED <<combineVars, workInputs, workArrays, workSlices, workResults>>

\* line 53: univ = MDAnalysis.Universe(topology_file, trajectory_file)
ContactUniverse ==
    /\ script = "contacts" /\ pc = "universe"
    /\ \/ /\ univ_open' = TRUE
          /\ pc' = "select"
          /\ UNCHANGED <<err, exitcode>>
       \/ /\ Fail("ReadError")          \* topology or trajectory cannot be opened
          /\ UNCHANGED univ_open
    /\ UNCHANGED <<script, stdout, files, contactInputs>>
    /\ UNCHANGED <<group1, group2, distance_threshold, ts, results, printed>>
    /\ UNCHANGED <<combineVars, workInputs, workArrays, workSlices, workResults>>

\* lines 56-59: the two selections, results = []
ContactSelect ==
    /\ script = "contacts" /\ pc = "select"
    /\ group1' = SelectAtoms(argv[2])
    /\ group2' = SelectAtoms(argv[3])
    /\ results' = <<>>
    /\ pc' = "loop"
    /\ UNCHANGED <<script, err, exitcode, stdout, files, contactInputs>>
    /\ UNCHANGED <<univ_open, distance_threshold, ts, printed>>
    /\ UNCHANGED <<combineVars, workInputs, workArrays, workSlices, workResults>>

\* lines 61-72: one iteration of "for ts in univ.trajectory"
ContactFrame ==
    /\ script = "contacts" /\ pc = "loop"
    /\ ts < Len(trajectory_file)
    /\ LET frame == trajectory_file[ts + 1]
       IN  results' = Append(results,
                <<frame.time, FrameCount(group1, group2, distance_threshold, frame)>>)
    /\ ts' = ts + 1
    /\ UNCHANGED <<commonVars, contactInputs>>
    /\ UNCHANGED <<univ_open, group1, group2, distance_threshold, printed>>
    /\ UNCHANGED <<combineVars, workInputs, workArrays, workSlices, workResults>>

\* lines 74, 88: the trajectory is exhausted, the function returns results
ContactReturn ==
    /\ script = "contacts" /\ pc = "loop"
    /\ ts = Len(trajectory_file)
    /\ pc' = "print"
    /\ UNCHANGED <<script, err, exitcode, stdout, files, contactInputs, contactVars>>
    /\ UNCHANGED <<combineVars, workInputs, workArrays, workSlices, workResults>>

\* lines 90-91: print the next result tuple
ContactPrint ==
    /\ script = "contacts" /\ pc = "print"
    /\ printed < Len(results)
    /\ stdout' = Append(stdout, RecordLine(results[printed + 1]))
    /\ printed' = printed + 1
    /\ UNCHANGED <<script, pc, err, exitcode, files, contactInputs>>
    /\ UNCHANGED <<univ_open, group1, group2, distance_threshold, ts, results>>
    /\ UNCHANGED <<combineVars, workInputs, workArrays, workSlices, workResults>>

\* end of the script: every tuple is printed, normal exit
ContactExit ==
    /\ script = "contacts" /\ pc = "print"
    /\ printed = Len(results)
    /\ pc' = "done"
    /\ exitcode' = 0
    /\ UNCHANGED <<script, err, stdout, files, contactInputs, contactVars>>
    /\ UNCHANGED <<combineVars, workInputs, workArrays, workSlices, workResults>>

NextContacts ==
    \/ ContactArgCheck \/ ContactParse \/ ContactUniverse \/ ContactSelect
    \/ ContactFrame \/ ContactReturn \/ ContactPrint \/ ContactExit

---------------------------------------------------------------------------
(* py_compute_work.py *)

GdForces == {0, 10, 40}
RawForces == {0, 6}

\* denoised force against cantilever position, raw force against time and
\* raw position against time; the sampling is regular
GdTable(forces) == [i \in 1..Len(forces) |-> <<2 * (i - 1), forces[i]>>]
ForceTable(forces) == [i \in 1..Len(forces) |-> <<i - 1, forces[i]>>]
PositionTable(n) == [i \in 1..n |-> <<i - 1, 3 * (i - 1)>>]

At(x, i) == x[i + 1]                   \* zero-based element access

\* scipy.signal._peak_finding_utils._local_maxima_1d: midpoints of the
\* plateaus that rise on their left and fall on their right
RECURSIVE PlateauEnd(_, _, _)
PlateauEnd(x, i, i_ahead) ==
    IF i_ahead < Len(x) - 1 /\ At(x, i_ahead) = At(x, i)
    THEN PlateauEnd(x, i, i_ahead + 1)
    ELSE i_ahead

RECURSIVE LocalMaximaFrom(_, _)
LocalMaximaFrom(x, i) ==
    IF i >= Len(x) - 1 THEN <<>>
    ELSE IF At(x, i - 1) < At(x, i)
    THEN LET i_ahead == PlateauEnd(x, i, i + 1)
         IN  IF At(x, i_ahead) < At(x, i)
             THEN <<(i + i_ahead - 1) \div 2>> \o LocalMaximaFrom(x, i_ahead + 1)
             ELSE LocalMaximaFrom(x, i + 1)
    ELSE LocalMaximaFrom(x, i + 1)

LocalMaxima(x) == LocalMaximaFrom(x, 1)

\* scipy.signal._peak_finding_utils._peak_prominences without a window: walk
\* left and right while the signal stays at or below the peak, keep the minima
RECURSIVE LeftMin(_, _, _, _)
LeftMin(x, peak, i, m) ==
    IF 0 <= i /\ At(x, i) <= At(x, peak)
    THEN LeftMin(x, peak, i - 1, Min(m, At(x, i)))
    ELSE m

RECURSIVE RightMin(_, _, _, _)
RightMin(x, peak, i, m) ==
    IF i <= Len(x) - 1 /\ At(x, i) <= At(x, peak)
    THEN RightMin(x, peak, i + 1, Min(m, At(x, i)))
    ELSE m

PeakProminence(x, peak) ==
    At(x, peak) - Max(LeftMin(x, peak, peak, At(x, peak)),
                      RightMin(x, peak, peak, At(x, peak)))

\* a peak filter that wants the prominence to exceed p
FindPeaksStrict(x, p) == SelectSeq(LocalMaxima(x), LAMBDA k : p < PeakProminence(x, k))

\* find_peaks(x, prominence=p)[0]: the local maxima whose prominence is at least p
FindPeaks(x, p) == SelectSeq(LocalMaxima(x), LAMBDA k : p <= PeakProminence(x, k))

\* np.argmax of a flattened array: zero-based position of the first maximum
ArgMax(flat) ==
    CHOOSE i \in 0..(Len(flat) - 1) :
        /\ \A j \in 0..(Len(flat) - 1) : At(flat, j) <= At(flat, i)
        /\ \A j \in 0..(i - 1) : At(flat, j) < At(flat, i)

\* line 43: the bound np.argmax(force_data) of the slice of the raw force
RawSliceBound(a) == ArgMax(Flatten(a.rows))

\* np.trapz(y, x): sum(diff(x) * (y[1:] + y[:-1]) / 2.0); the product
\* broadcasts, so it raises ValueError only if the two lengths differ and
\* neither is 1
Diff(x) == [i \in 1..Max(Len(x) - 1, 0) |-> x[i + 1] - x[i]]
PairSums(y) == [i \in 1..Max(Len(y) - 1, 0) |-> y[i + 1] + y[i]]
CanTrapz(y, x) ==
    LET n == Len(Diff(x))
        m == Len(PairSums(y))
    IN  n = m \/ n = 1 \/ m = 1
Trapz(y, x) ==
    LET d == Diff(x)
        s == PairSums(y)
        n == IF Len(d) = 1 THEN Len(s) ELSE Len(d)
    IN  SumSeq([i \in 1..n |-> (Bcast(d, i) * Bcast(s, i)) \div 2])

workLine(w) == [kind |-> "work", vals |-> <<w>>]

IdleWork ==
    /\ gd_file = <<>> /\ f_file = <<>> /\ x_file = <<>>
    /\ gaussian_denoised_data = EmptyArray /\ force_data = EmptyArray
    /\ position_data = EmptyArray
    /\ max_force_index = 0
    /\ force_up_to_max = <<>> /\ gd_force_up_to_max = <<>>
    /\ gd_virtual_positions = <<>> /\ sim_positions = <<>>
    /\ work_at_sim_positions = 0 /\ work_at_gd_positions = 0

InitWork ==
    /\ script = "work" /\ pc = "load_gd"
    /\ \E g \in SeqsUpTo(GdForces, MaxGd), f \in SeqsUpTo(RawForces, MaxForceRows),
          n \in 0..MaxPos :
          /\ gd_file = GdTable(g)
          /\ f_file = ForceTable(f)
          /\ x_file = PositionTable(n)
    /\ gaussian_denoised_data = EmptyArray /\ force_data = EmptyArray
    /\ position_data = EmptyArray
    /\ max_force_index = 0
    /\ force_up_to_max = <<>> /\ gd_force_up_to_max = <<>>
    /\ gd_virtual_positions = <<>> /\ sim_positions = <<>>
    /\ work_at_sim_positions = 0 /\ work_at_gd_positions = 0

\* line 26: gaussian_denoised_data = np.loadtxt(sys.argv[1], ...)
WorkLoadGd ==
    /\ script = "work" /\ pc = "load_gd"
    /\ \/ /\ gaussian_denoised_data' = LoadTxt(gd_file)
          /\ pc' = "load_f"
          /\ UNCHANGED <<err, exitcode>>
       \/ /\ Fail("ReadError")
          /\ UNCHANGED gaussian_denoised_data
    /\ UNCHANGED <<script, stdout, files, workInputs, force_data, position_data>>
    /\ UNCHANGED <<workSlices, workResults, combineVars, contactInputs, contactVars>>

\* line 30: force_data = np.loadtxt(sys.argv[2], ...)
WorkLoadForce ==
    /\ script = "work" /\ pc = "load_f"
    /\ \/ /\ force_data' = LoadTxt(f_file)
          /\ pc' = "load_x"
          /\ UNCHANGED <<err, exitcode>>
       \/ /\ Fail("ReadError")
          /\ UNCHANGED force_data
    /\ UNCHANGED <<script, stdout, files, workInputs, gaussian_denoised_data, position_data>>
    /\ UNCHANGED <<workSlices, workResults, combineVars, contactInputs, contactVars>>

\* line 34: position_data = np.loadtxt(sys.argv[3], ...)
WorkLoadPos ==
    /\ script = "work" /\ pc = "load_x"
    /\ \/ /\ position_data' = LoadTxt(x_file)
          /\ pc' = "peak"
          /\ UNCHANGED <<err, exitcode>>
       \/ /\ Fail("ReadError")
          /\ UNCHANGED position_data
    /\ UNCHANGED <<script, stdout, files, workInputs, gaussian_denoised_data, force_data>>
    /\ UNCHANGED <<workSlices, workResults, combineVars, contactInputs, contactVars>>

\* lines 39-40: max_force_index = find_peaks(gd[:, 1], prominence=30)[0][0]
WorkFindPeak ==
    /\ script = "work" /\ pc = "peak"
    /\ IF ~CanIndexCol(gaussian_denoised_data, 1)
       THEN Fail("IndexError") /\ UNCHANGED max_force_index
       ELSE LET peak_indices == FindPeaks(Col(gaussian_denoised_data, 1), Prominence)
            IN  IF peak_indices = <<>>
                THEN Fail("IndexError") /\ UNCHANGED max_force_index
                ELSE /\ max_force_index' = peak_indices[1]
                     /\ pc' = "slice"
                     /\ UNCHANGED <<err, exitcode>>
    /\ UNCHANGED <<script, stdout, files, workInputs, workArrays>>
    /\ UNCHANGED <<force_up_to_max, gd_force_up_to_max, gd_virtual_positions, sim_positions>>
    /\ UNCHANGED <<workResults, combineVars, contactInputs, contactVars>>

\* lines 43-46: the four slices
WorkSlice ==
    /\ script = "work" /\ pc = "slice"
    /\ IF Flatten(force_data.rows) = <<>>
       THEN /\ Fail("ValueError")          \* argmax of an empty sequence
            /\ UNCHANGED <<force_up_to_max, gd_force_up_to_max,
                           gd_virtual_positions, sim_positions>>
       ELSE IF ~CanIndexCol(force_data, 1)
       THEN /\ Fail("IndexError")
            /\ UNCHANGED <<force_up_to_max, gd_force_up_to_max,
                           gd_virtual_positions, sim_positions>>
       ELSE /\ force_up_to_max' = Take(Col(force_data, 1), RawSliceBound(force_data))
            /\ gd_force_up_to_max' = Take(Col(gaussian_denoised_data, 1), max_force_index)
            /\ gd_virtual_positions' = Take(Col(gaussian_denoised_data, 0), max_force_index)
            /\ IF ~CanIndexCol(position_data, 1)
               THEN Fail("IndexError") /\ UNCHANGED sim_positions
               ELSE /\ sim_positions' = Take(Col(position_data, 1), max_force_index)
                    /\ pc' = "trapz_sim"
                    /\ UNCHANGED <<err, exitcode>>
    /\ UNCHANGED <<script, stdout, files, workInputs, workArrays, max_force_index>>
    /\ UNCHANGED <<workResults, combineVars, contactInputs, contactVars>>

\* an integration step that echoes its value as soon as it has it
WorkTrapzSimEcho ==
    /\ script = "work" /\ pc = "trapz_sim"
    /\ IF CanTrapz(force_up_to_max, sim_positions)
       THEN /\ work_at_sim_positions' = Trapz(force_up_to_max, sim_positions)
            /\ stdout' = Append(stdout, workLine(work_at_sim_positions'))
            /\ pc' = "trapz_gd"
            /\ UNCHANGED <<err, exitcode>>
       ELSE Fail("ValueError") /\ UNCHANGED <<work_at_sim_positions, stdout>>
    /\ UNCHANGED <<script, files, workInputs, workArrays, workSlices>>
    /\ UNCHANGED <<work_at_gd_positions, combineVars, contactInputs, contactVars>>

\* line 49: work_at_sim_positions = np.trapz(force_up_to_max, sim_positions)
WorkTrapzSim ==
    /\ script = "work" /\ pc = "trapz_sim"
    /\ IF CanTrapz(force_up_to_max, sim_positions)
       THEN /\ work_at_sim_positions' = Trapz(force_up_to_max, sim_positions)
            /\ pc' = "trapz_gd"
            /\ UNCHANGED <<err, exitcode>>
       ELSE Fail("ValueError") /\ UNCHANGED work_at_sim_positions
    /\ UNCHANGED <<script, stdout, files, workInputs, workArrays, workSlices>>
    /\ UNCHANGED <<work_at_gd_positions, combineVars, contactInputs, contactVars>>

\* line 50: work_at_gd_positions = np.trapz(gd_force_up_to_max, gd_virtual_positions)
WorkTrapzGd ==
    /\ script = "work" /\ pc = "trapz_gd"
    /\ IF CanTrapz(gd_force_up_to_max, gd_virtual_positions)
       THEN /\ work_at_gd_positions' = Trapz(gd_force_up_to_max, gd_virtual_positions)
            /\ pc' = "print"
            /\ UNCHANGED <<err, exitcode>>
       ELSE Fail("ValueError") /\ UNCHANGED work_at_gd_positions
    /\ UNCHANGED <<script, stdout, files, workInputs, workArrays, workSlices>>
    /\ UNCHANGED <<work_at_sim_positions, combineVars, contactInputs, contactVars>>

\* line 53: print(work_at_sim_positions)
WorkPrint ==
    /\ script = "work" /\ pc = "print"
    /\ stdout' = Append(stdout, workLine(work_at_sim_positions))
    /\ pc' = "write_sim"
    /\ UNCHANGED <<script, err, exitcode, files>>
    /\ UNCHANGED <<workInputs, workArrays, workSlices, workResults>>
    /\ UNCHANGED <<combineVars, contactInputs, contactVars>>

\* lines 56-57: work_performed.xvg
WorkWriteSim ==
    /\ script = "work" /\ pc = "write_sim"
    /\ files' = files \cup {[name |-> "work_performed.xvg",
                             content |-> <<<<work_at_sim_positions>>>>]}
    /\ pc' = "write_gd"
    /\ UNCHANGED <<script, err, exitcode, stdout>>
    /\ UNCHANGED <<workInputs, workArrays, workSlices, workResults>>
    /\ UNCHANGED <<combineVars, contactInputs, contactVars>>

\* lines 59-60: work_performed_gd_positions.xvg, then normal exit
WorkWriteGd ==
    /\ script = "work" /\ pc = "write_gd"
    /\ files' = files \cup {[name |-> "work_performed_gd_positions.xvg",
                             content |-> <<<<work_at_gd_positions>>>>]}
    /\ pc' = "done"
    /\ exitcode' = 0
    /\ UNCHANGED <<script, err, stdout>>
    /\ UNCHANGED <<workInputs, workArrays, workSlices, workResults>>
    /\ UNCHANGED <<combineVars, contactInputs, contactVars>>

NextWork ==
    \/ WorkLoadGd \/ WorkLoadForce \/ WorkLoadPos \/ WorkFindPeak \/ WorkSlice
    \/ WorkTrapzSim \/ WorkTrapzGd \/ WorkPrint \/ WorkWriteSim \/ WorkWriteGd

---------------------------------------------------------------------------
(* Specifications: one per script, and one for a run of any of the three *)

InitCommon == err = "" /\ exitcode = -1 /\ stdout = <<>> /\ files = {}

InitCombineOnly == InitCommon /\ InitCombine /\ IdleContacts /\ IdleWork
InitContactsOnly == InitCommon /\ InitContacts /\ IdleCombine /\ IdleWork
InitWorkOnly == InitCommon /\ InitWork /\ IdleCombine /\ IdleContacts

Init == InitCombineOnly \/ InitContactsOnly \/ InitWorkOnly
Next == NextCombine \/ NextContacts \/ NextWork

Spec == Init /\ [][Next]_vars
SpecCombine == InitCombineOnly /\ [][NextCombine]_vars
SpecContacts == InitContactsOnly /\ [][NextContacts]_vars
SpecWork == InitWorkOnly /\ [][NextWork]_vars

---------------------------------------------------------------------------
(* Properties of the Quadrature Combiner *)

\* w is what the output format writes for the value v
WrittenAs(w, v, step) == w % step = 0 /\ 2 * Abs(w - v) <= step
\* r is the number nearest to the square root of n
NearestRoot(r, n) == r >= 0 /\ r * r - r <= n /\ n <= r * r + r /\ (n = 0 => r = 0)
ValidCombinerInput(rows) == \A i \in 1..Len(rows) : Len(rows[i]) >= 3

\* C1: whenever the combiner has written its output table, every row i of it
\* has column 0 equal to column 0 of file 1, column 1 equal to the sum of the
\* two files' columns 1, and column 2 equal to the square root of the sum of
\* the squares of the two files' original columns 2 (each value as the
\* 8-decimal output format writes it; the array handed to the writer holds
\* the three values exactly, the root rounded to the nearest number).
C1_CombinedColumns ==
    (script = "combine" /\ Written("output_file")) =>
        LET out == Content("output_file")
        IN  /\ Len(out) = Len(file1) /\ Len(data1.rows) = Len(file1)
            /\ \A i \in 1..Len(file1) :
                 LET sum == file1[i][2] + file2[i][2]
                     n == file1[i][3] * file1[i][3] + file2[i][3] * file2[i][3]
                 IN  /\ data1.rows[i][1] = file1[i][1]
                     /\ data1.rows[i][2] = sum
                     /\ NearestRoot(data1.rows[i][3], n)
                     /\ WrittenAs(out[i][1], file1[i][1], FmtStep)
                     /\ WrittenAs(out[i][2], sum, FmtStep)
                     /\ WrittenAs(out[i][3], data1.rows[i][3], FmtStep)

\* a finished run whose rows exercise the rounding of the root and of the format
C1_Witness ==
    /\ script = "combine" /\ pc = "done" /\ Written("output_file")
    /\ Len(file1) >= 2
    /\ \E i \in 1..Len(file1) :
          /\ file1[i] = <<14, -7, 4>> /\ file2[i] = <<1, 5, 4>>
          /\ Content("output_file")[i] = <<10, 0, 10>>
    /\ \E i \in 1..Len(file1) : file2[i][3] = 3 /\ data1.rows[i][3] = 5

\* C2: for two valid tables (3 or more columns) with the same row count
\* n >= 1, a run that could read both files ends successfully with an output
\* table of exactly n rows.
C2_SameRowCountSucceeds ==
    ( /\ script = "combine" /\ pc \in {"done", "failed"} /\ err # "ReadError"
      /\ Len(file1) >= 1 /\ Len(file1) = Len(file2)
      /\ ValidCombinerInput(file1) /\ ValidCombinerInput(file2) )
    => ( /\ pc = "done" /\ Written("output_file")
         /\ Len(Content("output_file")) = Len(file1) )

\* C9: when the two input files have different row counts the run never
\* reaches the statements after the column addition, never writes an output
\* table, and, once it has read both files, ends with a shape error
\* (IndexError for a one-dimensional array, ValueError for a failed broadcast).
C9_RowMismatchFails ==
    (script = "combine" /\ Len(file1) # Len(file2)) =>
        /\ files = {}
        /\ pc \in {"load1", "load2", "add", "failed"}
        /\ (pc = "failed" => err \in {"ReadError", "IndexError", "ValueError"})
        /\ (pc = "failed" /\ err # "ReadError" => data2 = LoadTxt(file2))

\* a failed broadcast between two tables of two and three rows
C9_Witness ==
    /\ script = "combine" /\ pc = "failed" /\ err = "ValueError"
    /\ Len(file1) = 2 /\ Len(file2) = 3 /\ files = {}

\* a one-row first file against a longer second file
C9_WitnessSingleRow ==
    /\ script = "combine" /\ pc = "failed" /\ err = "IndexError"
    /\ Len(file1) = 1 /\ Len(file2) = 2 /\ files = {}

---------------------------------------------------------------------------
(* Properties of the Contact Counter *)

\* periodic separation of two coordinates: the nearest of the periodic images
PairDistance(xa, xb, box) ==
    LET images == {Abs(xa - xb + k * box) : k \in -1..1}
    IN  CHOOSE d \in images : \A e \in images : d <= e
ContactPairs(frame) ==
    {pr \in group1 \X group2 :
        PairDistance(frame.positions[pr[1]], frame.positions[pr[2]], frame.box)
            < distance_threshold}

\* C5: with five arguments, if either selection resolves to no atom the run
\* collects and prints no (time, count) record and does not end successfully.
C5_EmptySelectionFails ==
    ( /\ script = "contacts" /\ Len(argv) = 6
      /\ (SelectAtoms(argv[2]) = {} \/ SelectAtoms(argv[3]) = {}) )
    => (results = <<>> /\ ResultLines(stdout) = <<>> /\ pc # "done")

C10_UsageOnWrongArgCount ==
    script = "contacts" =>
        /\ (Len(argv) - 1 # 5 =>
              /\ pc \in {"argcheck", "exit"}
              /\ ~univ_open /\ results = <<>> /\ ResultLines(stdout) = <<>>
              /\ (pc = "exit" => stdout = <<usageLine>> /\ exitcode = 1)
              /\ (pc = "argcheck" => stdout = <<>>))
        /\ (Len(argv) - 1 = 5 =>
              /\ pc # "exit"
              /\ \A k \in 1..Len(stdout) : stdout[k] # usageLine)

\* the usage exit with four arguments, a trajectory being available
C10_Witness ==
    /\ script = "contacts" /\ pc = "exit" /\ Len(argv) = 5
    /\ Len(trajectory_file) >= 1 /\ stdout = <<usageLine>> /\ exitcode = 1

---------------------------------------------------------------------------
(* Properties of the Work Integrator *)

AfterPeak == {"slice", "trapz_sim", "trapz_gd", "print", "write_sim", "write_gd", "done"}
AfterSlice == AfterPeak \ {"slice"}
AfterTrapzSim == AfterSlice \ {"trapz_sim"}

\* zero-based row of the largest force sample of the raw force file
RowOfMaxForce(rows) ==
    CHOOSE r \in 0..(Len(rows) - 1) :
        /\ \A q \in 0..(Len(rows) - 1) : rows[q + 1][2] <= rows[r + 1][2]
        /\ \A q \in 0..(r - 1) : rows[q + 1][2] < rows[r + 1][2]

\* C3: the raw force is truncated to the rows before the row of the largest
\* force sample of the raw force file.
C3_RawSliceAtForcePeak ==
    (script = "work" /\ pc \in AfterSlice) =>
        /\ Len(force_up_to_max) = RowOfMaxForce(f_file)
        /\ \A i \in 1..Len(force_up_to_max) : force_up_to_max[i] = f_file[i][2]

\* C4: the integration of the raw force over the raw position is passed only
\* by sequences of equal length; with unequal lengths the run fails there
\* and no work value is printed or written.
C4_LengthMismatchFails ==
    (script = "work" /\ pc \in AfterTrapzSim) =>
        Len(force_up_to_max) = Len(sim_positions)

\* the prominence test of the denoised force x at zero-based index i
GdForceColumn == [i \in 1..Len(gd_file) |-> gd_file[i][2]]
IsLocalMaximum(x, i) ==
    \E l \in 1..i, r \in i..(Len(x) - 2) :
        /\ i = (l + r) \div 2
        /\ \A j \in l..r : At(x, j) = At(x, i)
        /\ At(x, l - 1) < At(x, i)
        /\ At(x, r + 1) < At(x, i)
SetMin(S) == CHOOSE m \in S : \A e \in S : m <= e
SetMax(S) == CHOOSE m \in S : \A e \in S : e <= m
ProminenceOf(x, i) ==
    LET higherLeft == {j \in 0..(i - 1) : At(x, j) > At(x, i)}
        higherRight == {j \in (i + 1)..(Len(x) - 1) : At(x, j) > At(x, i)}
        lo == IF higherLeft = {} THEN 0 ELSE SetMax(higherLeft) + 1
        hi == IF higherRight = {} THEN Len(x) - 1 ELSE SetMin(higherRight) - 1
    IN  At(x, i) - Max(SetMin({At(x, j) : j \in lo..i}), SetMin({At(x, j) : j \in i..hi}))
PassesPeakTest(x, i) == IsLocalMaximum(x, i) /\ ProminenceOf(x, i) >= 30
PeakCandidates(x) == {i \in 0..(Len(x) - 1) : PassesPeakTest(x, i)}

\* C8: peak_index is the smallest index of the denoised force that passes
\* the prominence >= 30 local-maximum test; the denoised force and its
\* positions are cut to exactly the first peak_index rows, the raw positions
\* to their rows below peak_index; denoised force [0,10,40,10,0] gives
\* peak_index 2; and the run fails at the peak detection if no index passes.
C8_FirstProminentPeak ==
    script = "work" =>
        /\ (pc \in AfterPeak =>
              /\ max_force_index \in PeakCandidates(GdForceColumn)
              /\ \A j \in PeakCandidates(GdForceColumn) : max_force_index <= j)
        /\ (pc \in AfterPeak /\ GdForceColumn = <<0, 10, 40, 10, 0>> => max_force_index = 2)
        /\ (pc \in AfterSlice =>
              /\ Len(gd_force_up_to_max) = max_force_index
              /\ Len(gd_virtual_positions) = max_force_index
              /\ \A i \in 1..max_force_index :
                    /\ gd_force_up_to_max[i] = gd_file[i][2]
                    /\ gd_virtual_positions[i] = gd_file[i][1]
              /\ Len(sim_positions) = Min(max_force_index, Len(x_file))
              /\ \A i \in 1..Len(sim_positions) : sim_positions[i] = x_file[i][2])
        /\ (PeakCandidates(GdForceColumn) = {} =>
              pc \in {"load_gd", "load_f", "load_x", "peak", "failed"})
        /\ (PeakCandidates(GdForceColumn) # {} /\ pc = "failed" /\ err = "IndexError" =>
              Len(f_file) = 1 \/ Len(x_file) <= 1)

\* the scenario of the specification, sliced
C8_Witness ==
    /\ script = "work" /\ pc = "done"
    /\ GdForceColumn = <<0, 10, 40, 10, 0>>
    /\ max_force_index = 2 /\ gd_force_up_to_max = <<0, 10>>
    /\ gd_virtual_positions = <<0, 2>> /\ sim_positions = <<0, 3>>

\* no peak is prominent enough: the run fails at the peak detection
C8_WitnessNoPeak ==
    /\ script = "work" /\ pc = "failed" /\ err = "IndexError"
    /\ GdForceColumn = <<10, 10, 40, 40, 40>>

---------------------------------------------------------------------------
(* Property of all three scripts *)

OutputStarted == files # {} \/ ResultLines(stdout) # <<>>
computed == <<data1, data2, univ_open, group1, group2, distance_threshold, ts,
              results, workArrays, workSlices, workResults>>

====
